---- MODULE Spec2Model ----
(***************************************************************************)
(* mlpack LinearRegression (methods/linear_regression/linear_regression.cpp)*)
(*                                                                         *)
(* One LinearRegression object, the caller's matrices it is handed, and    *)
(* the file store its load/save methods talk to.  Matrices are Armadillo   *)
(* matrices: a shape (n_rows, n_cols) and a column-major memory block.     *)
(* Input data are integers; computed values (parameters, predictions) are  *)
(* exact rationals <<num, den>> in lowest terms, so the model describes    *)
(* the arithmetic of the code without floating-point rounding.             *)
(***************************************************************************)
EXTENDS Integers, Sequences, FiniteSets, TLC

VARIABLES phase, op, parameters, predictors, responses, points, predictions,
          files, ret, io, saved

vars == <<phase, op, parameters, predictors, responses, points, predictions,
          files, ret, io, saved>>

(***************************************************************************)
(* Bounds of the model.  Inputs are enumerated exhaustively within them;   *)
(* the named examples of the input sets (the worked example of the         *)
(* documentation, designs with two features) are added to them.            *)
(***************************************************************************)
\* largest number of observations (columns) of an enumerated predictors matrix
MaxObs == 2
\* largest number of features (rows) of an enumerated predictors matrix
MaxFeat == 1
\* data values are drawn from 0..MaxVal
MaxVal == 1
\* largest number of entries of an enumerated points matrix
MaxCells == 1
\* affine coefficients b_k are sought in -MaxCoef..MaxCoef
MaxCoef == 1
\* width of arma::uword in the model (32 or 64 in a build); scaled down so
\* that the wrapped value 2^w - 1 is a row count the model can enumerate
WordBits == 3

UWordMax == 2 ^ WordBits - 1

Vals == 0 .. MaxVal

Paths == {"model.csv"}

(***************************************************************************)
(* Exact rational arithmetic (the doubles of the code, without rounding).  *)
(***************************************************************************)
Abs(x) == IF x < 0 THEN -x ELSE x

RECURSIVE GCD(_, _)
GCD(a, b) == IF b = 0 THEN a ELSE GCD(b, a % b)

\* n/d in lowest terms with a positive denominator (d # 0)
Rat(n, d) ==
  LET g == GCD(Abs(n), Abs(d))
      s == IF d < 0 THEN -1 ELSE 1
  IN  <<s * (n \div g), s * (d \div g)>>

RInt(n) == <<n, 1>>

RAdd(p, q) == Rat(p[1] * q[2] + q[1] * p[2], p[2] * q[2])

RMul(p, q) == Rat(p[1] * q[1], p[2] * q[2])

RECURSIVE SumFn(_, _)
SumFn(f, n) == IF n = 0 THEN 0 ELSE f[n] + SumFn(f, n - 1)

RECURSIVE RSumFn(_, _)
RSumFn(f, n) == IF n = 0 THEN RInt(0) ELSE RAdd(RSumFn(f, n - 1), f[n])

(***************************************************************************)
(* Armadillo matrices: n_rows, n_cols and the column-major memory mem.     *)
(***************************************************************************)
\* M(r, c), zero-based, column-major
At(M, r, c) == M.mem[c * M.n_rows + r + 1]

MkMat(nr, nc, F(_, _)) ==
  [n_rows |-> nr, n_cols |-> nc,
   mem |-> IF nr * nc = 0 THEN << >>
           ELSE [k \in 1 .. (nr * nc) |-> F((k - 1) % nr, (k - 1) \div nr)]]

\* a default-constructed arma::vec / arma::rowvec
EmptyCol == [n_rows |-> 0, n_cols |-> 1, mem |-> << >>]
EmptyRow == [n_rows |-> 1, n_cols |-> 0, mem |-> << >>]

\* arma::colvec / arma::rowvec holding the sequence s
ColOf(s) == [n_rows |-> Len(s), n_cols |-> 1, mem |-> s]
RowOf(s) == [n_rows |-> 1, n_cols |-> Len(s), mem |-> s]

\* ones filled with zeros instead (ones.zeros(n_cols))
ones_zero(n) == MkMat(1, n, LAMBDA r, c : 0)

\* rowvec::ones(n)
ones(n) == MkMat(1, n, LAMBDA r, c : 1)

\* zeros that only resizes: a vector that already has n elements keeps them
zeros_keep(v, n) ==
  MkMat(1, n, LAMBDA r, c : IF v.n_cols = n THEN At(v, r, c) ELSE RInt(0))

\* Row<double>::zeros(n): the old contents and size of v are discarded
zeros(v, n) == MkMat(1, n, LAMBDA r, c : RInt(0))

\* Col<double>::zeros(n)
zeros_col(v, n) == MkMat(n, 1, LAMBDA r, c : RInt(0))

\* Mat::insert_rows(row_num, X) for a row vector X
insert_rows(M, row_num, X) ==
  MkMat(M.n_rows + 1, M.n_cols,
        LAMBDA r, c : IF r < row_num THEN At(M, r, c)
                      ELSE IF r = row_num THEN At(X, 0, c)
                      ELSE At(M, r - 1, c))

\* shed_row that removes the last row, whatever row_num is
shed_row_last(M, row_num) ==
  MkMat(M.n_rows - 1, M.n_cols, LAMBDA r, c : At(M, r, c))

\* Mat::shed_row(row_num)
shed_row(M, row_num) ==
  MkMat(M.n_rows - 1, M.n_cols,
        LAMBDA r, c : IF r < row_num THEN At(M, r, c) ELSE At(M, r + 1, c))

\* arma::trans
trans(M) == MkMat(M.n_cols, M.n_rows, LAMBDA r, c : At(M, c, r))

(***************************************************************************)
(* arma::qr followed by arma::solve(parameters, R, trans(Q) * responses).  *)
(* Q is orthogonal, so a solution of R * B = Q^T * y in the least-squares  *)
(* sense is a least-squares solution of A * B = y, for the N x P matrix    *)
(* A = Q R.  With A of full rank solve() returns                           *)
(*   N >= P: the unique least-squares solution, (A^T A) B = A^T y;         *)
(*   N <  P: the solution of least norm, B = A^T w with (A A^T) w = y;     *)
(* both are computed here exactly by Cramer's rule.  Without full rank     *)
(* solve() either reports failure, which the constructor ignores, and      *)
(* resets its output, or returns some vector of the right length.          *)
(***************************************************************************)
RECURSIVE Det(_)
Det(M) ==
  LET n == Len(M)
      Minor(col) == [i \in 1 .. (n - 1) |->
                      [j \in 1 .. (n - 1) |->
                        M[i + 1][IF j < col THEN j ELSE j + 1]]]
  IN  IF n = 0 THEN 1
      ELSE IF n = 1 THEN M[1][1]
      ELSE SumFn([j \in 1 .. n |->
                   (IF j % 2 = 1 THEN 1 ELSE -1) * M[1][j] * Det(Minor(j))], n)

\* A^T A for an N x P matrix A
Gram(A) ==
  [a \in 1 .. A.n_cols |->
    [b \in 1 .. A.n_cols |->
      SumFn([i \in 1 .. A.n_rows |-> At(A, i - 1, a - 1) * At(A, i - 1, b - 1)],
            A.n_rows)]]

\* A^T y
GramRhs(A, y) ==
  [a \in 1 .. A.n_cols |->
    SumFn([i \in 1 .. A.n_rows |-> At(A, i - 1, a - 1) * y.mem[i]], A.n_rows)]

\* rank(A) = min(N, P)
FullRank(A) ==
  IF A.n_rows >= A.n_cols THEN Det(Gram(A)) # 0 ELSE Det(Gram(trans(A))) # 0

\* the solution of the square system G x = rhs, det(G) = d # 0
Cramer(G, rhs, d) ==
  [k \in 1 .. Len(G) |->
    Rat(Det([a \in 1 .. Len(G) |->
              [b \in 1 .. Len(G) |-> IF b = k THEN rhs[a] ELSE G[a][b]]]), d)]

\* a vector solve() may leave behind when the system is rank deficient
ArbitraryCols(n) == {ColOf([k \in 1 .. n |-> RInt(1)])}

\* the set of values solve(out, R, Q^T y) can leave in out, for A = Q R
qr_solve(out, A, y) ==
  IF ~FullRank(A)
  THEN {EmptyCol} \cup ArbitraryCols(A.n_cols)
  ELSE IF A.n_rows >= A.n_cols
  THEN LET G == Gram(A)
       IN  {ColOf(Cramer(G, GramRhs(A, y), Det(G)))}
  ELSE LET H == Gram(trans(A))
           w == Cramer(H, y.mem, Det(H))
       IN  {ColOf([a \in 1 .. A.n_cols |->
                    RSumFn([i \in 1 .. A.n_rows |->
                             RMul(RInt(At(A, i - 1, a - 1)), w[i])], A.n_rows)])}

(***************************************************************************)
(* The file store behind data::Load / data::Save and Mat::load: a file     *)
(* holds a flat numeric sequence.                                          *)
(***************************************************************************)
NoFile == [exists |-> FALSE, data |-> << >>]
FileOf(s) == [exists |-> TRUE, data |-> s]

\* data::Save(filename, parameters): the flat sequence written
Data_Save(v) == FileOf([k \in 1 .. v.n_rows |-> At(v, k - 1, 0)])

\* data::Load(filename, parameters): the vector read from a readable file
Data_Load(f) == MkMat(Len(f.data), 1, LAMBDA r, c : f.data[r + 1])

\* Mat::load(filename) of the load constructor: the vector read, or the
\* reset (empty) vector when the file cannot be read
Mat_load(f) == IF f.exists THEN Data_Load(f) ELSE EmptyCol

Void == [kind |-> "void", b |-> FALSE, v |-> EmptyCol]
BoolRet(x) == [kind |-> "bool", b |-> x, v |-> EmptyCol]
VecRet(x) == [kind |-> "vec", b |-> FALSE, v |-> x]

NotSaved == [valid |-> FALSE, vec |-> EmptyCol]

(***************************************************************************)
(* Input sets.                                                             *)
(***************************************************************************)
\* all nr x nc matrices over Vals
MatsOf(nr, nc) ==
  {[n_rows |-> nr, n_cols |-> nc, mem |-> m] : m \in [1 .. (nr * nc) -> Vals]}

Mats(rows, cols) == UNION {MatsOf(nr, nc) : nr \in rows, nc \in cols}

ColVecs(lens) == UNION {MatsOf(n, 1) : n \in lens}

\* predictors = [[1],[2],[3]], responses = [3,5,7]
ExamplePredictors == [n_rows |-> 1, n_cols |-> 3, mem |-> <<1, 2, 3>>]
ExampleResponses == [n_rows |-> 3, n_cols |-> 1, mem |-> <<3, 5, 7>>]
ExamplePoints == [n_rows |-> 1, n_cols |-> 1, mem |-> <<4>>]

\* two observations of one feature, and one observation of two features
TwoPoints == [n_rows |-> 1, n_cols |-> 2, mem |-> <<1, 2>>]
TwoFeaturePoint == [n_rows |-> 2, n_cols |-> 1, mem |-> <<1, 2>>]

\* two features: three observations that the fit interpolates, and four
\* observations whose least-squares solution is (1/4, 1/2, -1/2)
TwoFeatures3 == [n_rows |-> 2, n_cols |-> 3, mem |-> <<0, 0, 1, 0, 0, 1>>]
TwoFeatures4 == [n_rows |-> 2, n_cols |-> 4, mem |-> <<0, 0, 1, 0, 0, 1, 1, 1>>]

\* every predictors matrix within the bounds with every response vector of
\* matching length and one that is too long; the worked example and the
\* designs with two features
FitInputs ==
  {in \in Mats(0 .. MaxFeat, 1 .. MaxObs) \X ColVecs(1 .. (MaxObs + 1)) :
     \/ in[2].n_rows = in[1].n_cols
     \/ in[2] = [n_rows |-> in[1].n_cols + 1, n_cols |-> 1,
                 mem |-> [k \in 1 .. (in[1].n_cols + 1) |-> 0]]}
    \cup {<<ExamplePredictors, ExampleResponses>>,
          <<TwoFeatures3, [n_rows |-> 3, n_cols |-> 1, mem |-> <<1, 0, 1>>]>>,
          <<TwoFeatures4, [n_rows |-> 4, n_cols |-> 1, mem |-> <<0, 1, 0, 0>>]>>}

\* the fit inputs of the object life cycle: the worked example, a
\* rank-deficient design and a response vector of the wrong length
LifeInputs ==
  { <<ExamplePredictors, ExampleResponses>>,
    <<[n_rows |-> 1, n_cols |-> 2, mem |-> <<1, 1>>],
      [n_rows |-> 2, n_cols |-> 1, mem |-> <<0, 1>>]>>,
    <<[n_rows |-> 1, n_cols |-> 2, mem |-> <<0, 1>>],
      [n_rows |-> 1, n_cols |-> 1, mem |-> <<1>>]>> }

\* points matrices: every matrix of at most MaxCells entries, and the
\* matrices without observations of any row count an arma::uword can hold
PointsSet ==
  UNION {MatsOf(d[1], d[2]) :
           d \in {e \in (0 .. MaxCells) \X (0 .. MaxCells) : e[1] * e[2] <= MaxCells}}
    \cup {[n_rows |-> r, n_cols |-> 0, mem |-> << >>] : r \in 0 .. UWordMax}
    \cup {ExamplePoints, TwoPoints, TwoFeaturePoint}

\* single new observations for a fitted model
NewPoints ==
  {[n_rows |-> 0, n_cols |-> 1, mem |-> << >>],
   [n_rows |-> 1, n_cols |-> 1, mem |-> <<1>>],
   ExamplePoints, TwoFeaturePoint}

\* what a file may hold before the program runs
FileInit ==
  {NoFile, FileOf(<<RInt(1), RInt(0), RInt(1)>>)} \cup
  {FileOf(s) : s \in UNION {[1 .. n -> {RInt(v) : v \in Vals}]
                             : n \in 0 .. (MaxFeat + 1)}}

\* caller-supplied prediction vectors before the first predict
PredictionsInit == {RowOf(<<RInt(5), RInt(7)>>)}

(***************************************************************************)
(* LinearRegression::predict                                               *)
(***************************************************************************)
\* subtraction that stops at zero instead of wrapping
USub_saturating(a, b) == IF a < b THEN 0 ELSE a - b

\* unsigned subtraction on arma::uword
USub(a, b) == (a - b) % (2 ^ WordBits)

\* assert(n_rows == parameters.n_rows - 1)
DimAssert(n_rows, params) == n_rows = USub(params.n_rows, 1)

\* predictions += s
AddScalar(v, s) == MkMat(v.n_rows, v.n_cols, LAMBDA r, c : RAdd(At(v, r, c), s))

\* predictions(j) += x
AddAt(v, j, x) ==
  MkMat(v.n_rows, v.n_cols,
        LAMBDA r, c : IF c = j THEN RAdd(At(v, r, c), x) ELSE At(v, r, c))

\* for (size_t j = 0; j < n_cols; ++j) predictions(j) += parameters(i) * points(i - 1, j)
RECURSIVE InnerLoop(_, _, _, _, _)
InnerLoop(pred, params, pts, i, j) ==
  IF j < pts.n_cols
  THEN InnerLoop(AddAt(pred, j, RMul(At(params, i, 0), RInt(At(pts, i - 1, j)))),
                 params, pts, i, j + 1)
  ELSE pred

\* for (size_t i = 1; i < n_rows + 1; ++i)
RECURSIVE OuterLoop(_, _, _, _)
OuterLoop(pred, params, pts, i) ==
  IF i < pts.n_rows + 1
  THEN OuterLoop(InnerLoop(pred, params, pts, i, 0), params, pts, i + 1)
  ELSE pred

\* predict without the intercept (predictions += parameters(0) left out)
predict_no_intercept(pred, params, pts) ==
  OuterLoop(zeros(pred, pts.n_cols), params, pts, 1)

\* the body of predict once the assertion has passed
predict(pred, params, pts) ==
  OuterLoop(AddScalar(zeros(pred, pts.n_cols), At(params, 0, 0)), params, pts, 1)

\* what an out-of-bounds read of parameters can leave in the predictions
ArbitraryRows(n) == {RowOf([k \in 1 .. n |-> RInt(1)])}

(***************************************************************************)
(* State.                                                                  *)
(*   phase       "none" (no object yet), "ready", "aborted" (assertion     *)
(*               failure), "threw" (an exception left the call)            *)
(*   op          the last operation called                                 *)
(*   parameters  the object's parameter vector                             *)
(*   predictors, responses, points, predictions   the caller's matrices    *)
(*   files       the file store                                            *)
(*   ret         the value returned by the last call                       *)
(*   io          outcome of the last storage call: "none", "ok", "fail"    *)
(*   saved       history: per file, the vector a save wrote into it        *)
(***************************************************************************)
InitCommon ==
  /\ phase = "none"
  /\ op = "none"
  /\ parameters = EmptyCol
  /\ points = [n_rows |-> 0, n_cols |-> 0, mem |-> << >>]
  /\ ret = Void
  /\ io = "none"
  /\ saved = [p \in Paths |-> NotSaved]

\* the object life cycle: few fit inputs, every initial content of the file
Init ==
  /\ InitCommon
  /\ \E in \in LifeInputs : predictors = in[1] /\ responses = in[2]
  /\ predictions \in PredictionsInit
  /\ \E f \in FileInit : files = [p \in Paths |-> f]

\* fitting: every fit input within the bounds, no files
InitFit ==
  /\ InitCommon
  /\ \E in \in FitInputs : predictors = in[1] /\ responses = in[2]
  /\ predictions = EmptyRow
  /\ files = [p \in Paths |-> NoFile]

\* a fit constructor that adds, and removes, the row of ones below the last
\* feature instead of above the first
FitCtor_ones_last ==
  /\ phase = "none"
  /\ op' = "fit"
  /\ LET n_cols == predictors.n_cols
         aug == insert_rows(predictors, predictors.n_rows, ones(n_cols))
         pz == zeros_col(parameters, n_cols)
     IN  IF responses.n_rows # n_cols
         THEN /\ phase' = "threw"
              /\ predictors' = aug
              /\ parameters' = pz
         ELSE /\ phase' = "ready"
              /\ parameters' \in qr_solve(pz, trans(aug), responses)
              /\ predictors' = shed_row(aug, predictors.n_rows)
  /\ ret' = Void
  /\ io' = "none"
  /\ UNCHANGED <<responses, points, predictions, files, saved>>

\* LinearRegression(arma::mat& predictors, const arma::colvec& responses)
FitCtor ==
  /\ phase = "none"
  /\ op' = "fit"
  /\ LET n_cols == predictors.n_cols
         aug == insert_rows(predictors, 0, ones(n_cols))
         pz == zeros_col(parameters, n_cols)
     IN  IF responses.n_rows # n_cols
         THEN \* trans(Q) * responses: Q is n_cols x n_cols, the product
              \* throws and the row of ones stays in the caller's matrix
              /\ phase' = "threw"
              /\ predictors' = aug
              /\ parameters' = pz
         ELSE /\ phase' = "ready"
              /\ parameters' \in qr_solve(pz, trans(aug), responses)
              /\ predictors' = shed_row(aug, 0)
  /\ ret' = Void
  /\ io' = "none"
  /\ UNCHANGED <<responses, points, predictions, files, saved>>

\* a load constructor that never reads the file
LoadCtor_noread(f) ==
  /\ phase \in {"none", "ready"}
  /\ op' = "loadctor"
  /\ phase' = "ready"
  /\ io' = "ok"
  /\ parameters' = EmptyCol
  /\ ret' = Void
  /\ UNCHANGED <<predictors, responses, points, predictions, files, saved>>

\* LinearRegression(const std::string& filename); in phase "ready" this is
\* the construction of a further object, which the model then follows
LoadCtor(f) ==
  /\ phase \in {"none", "ready"}
  /\ op' = "loadctor"
  /\ phase' = "ready"
  /\ \E ok \in {TRUE, FALSE} :
       /\ ok => files[f].exists
       /\ io' = IF ok THEN "ok" ELSE "fail"
       /\ parameters' = Mat_load(IF ok THEN files[f] ELSE NoFile)
  /\ ret' = Void
  /\ UNCHANGED <<predictors, responses, points, predictions, files, saved>>

\* void predict(arma::rowvec& predictions, const arma::mat& points)
Predict(pts) ==
  /\ phase = "ready"
  /\ op' = "predict"
  /\ points' = pts
  /\ IF ~DimAssert(pts.n_rows, parameters)
     THEN /\ phase' = "aborted"
          /\ predictions' = predictions
     ELSE IF parameters.n_rows = 0
     THEN \* parameters(0) is read out of bounds: Armadillo's bounds check
          \* throws, or without it the read yields whatever is there
          \/ /\ phase' = "threw"
             /\ predictions' = zeros(predictions, pts.n_cols)
          \/ /\ phase' = "ready"
             /\ predictions' \in ArbitraryRows(pts.n_cols)
     ELSE /\ phase' = "ready"
          /\ predictions' = predict(predictions, parameters, pts)
  /\ ret' = Void
  /\ io' = "none"
  /\ UNCHANGED <<parameters, predictors, responses, files, saved>>

\* getParameters that hands its vector over instead of copying it
GetParameters_move ==
  /\ phase = "ready"
  /\ op' = "getParameters"
  /\ ret' = VecRet(parameters)
  /\ parameters' = EmptyCol
  /\ io' = "none"
  /\ UNCHANGED <<phase, predictors, responses, points, predictions, files,
                 saved>>

\* arma::vec getParameters()
GetParameters ==
  /\ phase = "ready"
  /\ op' = "getParameters"
  /\ ret' = VecRet(parameters)
  /\ io' = "none"
  /\ UNCHANGED <<phase, parameters, predictors, responses, points,
                 predictions, files, saved>>

\* bool load(const std::string& filename)
Load(f) ==
  /\ phase = "ready"
  /\ op' = "load"
  /\ \E ok \in {TRUE, FALSE} :
       /\ ok => files[f].exists
       /\ io' = IF ok THEN "ok" ELSE "fail"
       /\ ret' = BoolRet(ok)
       /\ parameters' = IF ok THEN Data_Load(files[f]) ELSE parameters
  /\ UNCHANGED <<phase, predictors, responses, points, predictions, files,
                 saved>>

\* save that reports success whatever the storage call returned
Save_true(f) ==
  /\ phase = "ready"
  /\ op' = "save"
  /\ \E ok \in {TRUE, FALSE} :
       /\ io' = IF ok THEN "ok" ELSE "fail"
       /\ ret' = BoolRet(TRUE)
       /\ IF ok
          THEN /\ files' = [files EXCEPT ![f] = Data_Save(parameters)]
               /\ saved' = [saved EXCEPT ![f] = [valid |-> TRUE, vec |-> parameters]]
          ELSE UNCHANGED <<files, saved>>
  /\ UNCHANGED <<phase, parameters, predictors, responses, points,
                 predictions>>

\* bool save(const std::string& filename)
Save(f) ==
  /\ phase = "ready"
  /\ op' = "save"
  /\ \E ok \in {TRUE, FALSE} :
       /\ io' = IF ok THEN "ok" ELSE "fail"
       /\ ret' = BoolRet(ok)
       /\ IF ok
          THEN /\ files' = [files EXCEPT ![f] = Data_Save(parameters)]
               /\ saved' = [saved EXCEPT ![f] = [valid |-> TRUE, vec |-> parameters]]
          ELSE UNCHANGED <<files, saved>>
  /\ UNCHANGED <<phase, parameters, predictors, responses, points,
                 predictions>>

Next ==
  \/ FitCtor
  \/ \E f \in Paths : LoadCtor(f)
  \/ \E pts \in PointsSet : Predict(pts)
  \/ GetParameters
  \/ \E f \in Paths : Load(f)
  \/ \E f \in Paths : Save(f)

Spec == Init /\ [][Next]_vars

\* fitting, then predicting single new points with the fitted model
NextFit ==
  \/ FitCtor
  \/ \E pts \in {q \in NewPoints : q.n_rows = predictors.n_rows} : Predict(pts)

SpecFit == InitFit /\ [][NextFit]_vars

(***************************************************************************)
(* Properties.                                                             *)
(***************************************************************************)
\* the design matrix of the specification: one row per observation, a
\* leading column of ones, then the features
DesignOf(P) ==
  MkMat(P.n_cols, P.n_rows + 1,
        LAMBDA r, c : IF c = 0 THEN 1 ELSE At(P, c - 1, r))

\* params[0] + sum over k in 1..D of params[k] * (feature k of observation j)
AffineAt(params, pts, j) ==
  RAdd(params.mem[1],
       RSumFn([k \in 1 .. pts.n_rows |->
                RMul(params.mem[k + 1], RInt(At(pts, k - 1, j)))], pts.n_rows))

\* C1: for a parameter vector of length D+1 and a points matrix of M
\* observations with D features, predict completes and leaves exactly M
\* predictions, predictions[j] = parameters[0] + sum_k parameters[k] *
\* (feature k of observation j), in the order of the observations.
C1_PredictIsAffine ==
  (op = "predict" /\ parameters.n_rows = points.n_rows + 1) =>
    /\ phase = "ready"
    /\ predictions.n_rows = 1
    /\ predictions.n_cols = points.n_cols
    /\ Len(predictions.mem) = points.n_cols
    /\ \A j \in 0 .. (points.n_cols - 1) :
         predictions.mem[j + 1] = AffineAt(parameters, points, j)

C1_Witness ==
  /\ op = "predict"
  /\ phase = "ready"
  /\ parameters = ColOf(<<RInt(0), RInt(1)>>)
  /\ points = TwoPoints
  /\ predictions = RowOf(<<RInt(1), RInt(2)>>)

\* C2: when the fit constructor returns, the predictors matrix has the
\* shape and the entries it had before the call.
C2_PredictorsRestored ==
  [][(op' = "fit" /\ phase' = "ready") => predictors' = predictors]_vars

C2_Witness ==
  /\ op = "fit"
  /\ phase = "ready"
  /\ predictors = TwoFeatures3
  /\ parameters = ColOf(<<RInt(1), RInt(-1), RInt(0)>>)

\* C3: predict fails with an assertion exactly when the number of features
\* of the points matrix differs from the parameter vector length minus one.
C3_AssertIffMismatch ==
  op = "predict" =>
    ((phase = "aborted") <=> (points.n_rows # parameters.n_rows - 1))

\* C4 as stated: after fitting on N observations with D features the
\* parameter vector has length D+1.
C4_LengthAlways ==
  (op = "fit" /\ phase = "ready") => parameters.n_rows = predictors.n_rows + 1

\* the residual of observation j under the parameters, intercept at index 0
\* and the coefficient of feature k at index k
Residual(j) ==
  RAdd(RInt(responses.mem[j + 1]),
       RMul(RInt(-1), AffineAt(parameters, predictors, j)))

\* the normal equations of the design matrix [1, feature 1, .., feature D]
NormalEquations ==
  /\ RSumFn([j \in 1 .. predictors.n_cols |-> Residual(j - 1)],
            predictors.n_cols) = RInt(0)
  /\ \A k \in 1 .. predictors.n_rows :
       RSumFn([j \in 1 .. predictors.n_cols |->
                RMul(RInt(At(predictors, k - 1, j - 1)), Residual(j - 1))],
              predictors.n_cols) = RInt(0)

\* C4 (amended): after fitting on N observations with D features whose
\* augmented design matrix has full rank, the parameter vector has length
\* D+1 (not N) and is a least-squares solution with the intercept at index
\* 0 and the coefficient of feature k at index k.
C4_LengthWhenFullRank ==
  (op = "fit" /\ phase = "ready" /\ FullRank(DesignOf(predictors))) =>
    /\ parameters.n_rows = predictors.n_rows + 1
    /\ parameters.n_cols = 1
    /\ Len(parameters.mem) = predictors.n_rows + 1
    /\ NormalEquations

C4_Witness ==
  /\ op = "fit"
  /\ phase = "ready"
  /\ predictors = TwoFeatures4
  /\ parameters = ColOf(<<Rat(1, 4), Rat(1, 2), Rat(-1, 2)>>)
  /\ FullRank(DesignOf(predictors))

\* b[1] + sum over k of b[k+1] * (feature k of observation j), in integers
IntAffineAt(b, M, j) ==
  b[1] + SumFn([k \in 1 .. M.n_rows |-> b[k + 1] * At(M, k - 1, j)], M.n_rows)

\* C5: when the responses are an exact affine function b of the predictors
\* and the augmented design matrix has full column rank, fitting returns
\* the parameter vector b and predict on a new point returns the value of
\* the affine function; predictors [[1],[2],[3]] with responses [3,5,7] give
\* parameters [1,2], and predict on [[4]] gives [9].
C5_ExactRecovery ==
  /\ (phase = "ready" /\ predictors.n_cols >= predictors.n_rows + 1
        /\ FullRank(DesignOf(predictors))) =>
       \A b \in [1 .. (predictors.n_rows + 1) -> -MaxCoef .. MaxCoef] :
         (\A j \in 1 .. predictors.n_cols :
            responses.mem[j] = IntAffineAt(b, predictors, j - 1)) =>
           /\ parameters = ColOf([k \in 1 .. (predictors.n_rows + 1) |-> RInt(b[k])])
           /\ op = "predict" =>
                predictions =
                  RowOf([j \in 1 .. points.n_cols |->
                          RInt(IntAffineAt(b, points, j - 1))])
  /\ (phase = "ready" /\ predictors = ExamplePredictors
        /\ responses = ExampleResponses) =>
       /\ parameters = ColOf(<<RInt(1), RInt(2)>>)
       /\ (op = "predict" /\ points = ExamplePoints) =>
            predictions = RowOf(<<RInt(9)>>)

C5_Witness ==
  /\ op = "predict"
  /\ phase = "ready"
  /\ predictors = ExamplePredictors
  /\ responses = ExampleResponses
  /\ points = ExamplePoints
  /\ predictions = RowOf(<<RInt(9)>>)

\* C6 as stated: once the object is constructed, no call to predict,
\* getParameters, save or load changes its parameter vector.
C6_NoCallChangesParameters ==
  [][(phase = "ready" /\ op' \in {"predict", "getParameters", "save", "load"})
       => parameters' = parameters]_vars

\* C6 (amended): once the object is constructed, no call to predict,
\* getParameters or save changes its parameter vector; load replaces it.
C6_OnlyLoadChangesParameters ==
  [][(phase = "ready" /\ op' \in {"predict", "getParameters", "save"})
       => parameters' = parameters]_vars

C6_Witness ==
  /\ op = "getParameters"
  /\ phase = "ready"
  /\ parameters.n_rows = 2
  /\ ret = VecRet(parameters)

C8_PredictIdempotent ==
  [][(op = "predict" /\ phase = "ready" /\ op' = "predict" /\ phase' = "ready"
        /\ points' = points)
       => predictions' = predictions]_vars

C8_Witness ==
  /\ op = "predict"
  /\ phase = "ready"
  /\ points = TwoFeaturePoint
  /\ parameters = ColOf(<<RInt(1), RInt(0), RInt(1)>>)
  /\ predictions = RowOf(<<RInt(3)>>)

\* C9: load and save return false when the storage call failed and true
\* when it succeeded, without an exception or an abort; save leaves the
\* parameter vector as it was whether it succeeds or fails.
C9_IoFailureIsFalse ==
  [][(op' \in {"load", "save"}) =>
       /\ phase' = "ready"
       /\ ret' = BoolRet(io' = "ok")
       /\ (op' = "save" => parameters' = parameters)]_vars

C9_Witness ==
  /\ op = "save"
  /\ io = "fail"
  /\ ret = BoolRet(FALSE)
  /\ parameters.n_rows = 2

\* C10: the load constructor does not report an unreadable file and leaves
\* the parameter vector empty; with an empty parameter vector predict
\* rejects, through the dimension assertion, every points matrix with fewer
\* than 2^w - 1 features, one with zero features included.
C10_EmptyParametersRejectAll ==
  /\ (op = "loadctor" /\ io = "fail") =>
       (phase = "ready" /\ parameters = EmptyCol /\ ret = Void)
  /\ (op = "predict" /\ parameters.n_rows = 0 /\ points.n_rows < UWordMax) =>
       phase = "aborted"

C10_Witness ==
  /\ op = "predict"
  /\ phase = "aborted"
  /\ parameters = EmptyCol
  /\ points.n_rows = 0
  /\ ~files["model.csv"].exists

====
